---- MODULE Spec2Model ----
(***************************************************************************)
(* State machine of the rigid-body simulator's tick (idle_func), contact   *)
(* graph construction (create_contact_graph) and reset (remap_GUI) of      *)
(* LocalRigidBodies.cpp, run on the init_tall_stack scene.                 *)
(*                                                                         *)
(* Bodies are named by their construction order 1..NumBodies (the Body*    *)
(* identities); array indices of the C++ code (0-based) are slots          *)
(* 1..NumBodies here.  Vectors are reduced to their vertical component,    *)
(* in units in which gravity changes a unit-mass body's momentum by one    *)
(* per tick.  Geometry (intersection_test) and the velocity tests of the   *)
(* resolvers are inputs drawn by \E.                                       *)
(*                                                                         *)
(* Spec runs ticks and resets; SpecGraph applies create_contact_graph      *)
(* once, to any contact graph within MaxTouch, from any order of arrays.   *)
(***************************************************************************)
EXTENDS Integers, Sequences, FiniteSets, TLC

(* ---------------- program constants ---------------- *)
MAX_COLLISIONS == 5
MAX_CONTACTS == 10
MAX_SHOCK_PROP == 1
NumShuffle == 15
NumBodies == 4
dt == 1
Gravity == -1

(* ---------------- bounds of the model ---------------- *)
MaxTicks == 1
MaxImpulses == 1
MaxTouch == 2

Bodies == 1..NumBodies
Slots == 1..NumBodies

VARIABLES
    pc,         \* position of the program: "idle" between callbacks, else a step of idle_func
    count,      \* loop counter `count` of idle_func
    body,       \* body id -> the Body object's fields
    sysB,       \* sys->bVector: slot -> body id
    bVector,    \* file-local bVector: slot -> body id
    prev_pos,   \* idle_func's prev_pos array: slot -> [x, q]
    prev_vel,   \* idle_func's prev_vel array: slot -> [p, l]
    ticks,      \* number of idle_func runs started
    impulses,   \* number of impulses of at least one unit applied so far
    pre,        \* history: the dynamic state and `impulses` at the start of the running tick
    h           \* history: the detect calls of the running loop, and the shock calls of the tick

vars == <<pc, count, body, sysB, bVector, prev_pos, prev_vel, ticks, impulses, pre, h>>

Min(a, b) == IF a < b THEN a ELSE b

(* ---------------- scene: init_tall_stack ---------------- *)
\* floor (inv_mass 0) then three unit boxes (inv_mass 1), stacked
construct_inv_mass(b) == IF b = 1 THEN 0 ELSE 1
\* heights in half box heights: floor centre -1/2, boxes 1/2, 3/2, 5/2
ConstructPos(b) == 2 * b - 3
ConstructOrien(b) == 0

NewBody(b) ==
    [ Position |-> ConstructPos(b), Orientation |-> ConstructOrien(b),
      Momentum |-> 0, AngularMomentum |-> 0, forces |-> 0,
      inv_mass |-> construct_inv_mass(b),
      in_contact_list |-> << >>, SCC_num |-> 0 ]

init_tall_stack == [b \in Bodies |-> NewBody(b)]

NoPos == [x |-> 0, q |-> 0]
NoVel == [p |-> 0, l |-> 0]
NoPrevPos == [i \in Slots |-> NoPos]
NoPrevVel == [i \in Slots |-> NoVel]

\* Body::reset(): construct-time pose and inverse mass, zero momenta
reset(bd, b) ==
    [bd EXCEPT ![b].Position = ConstructPos(b), ![b].Orientation = ConstructOrien(b),
               ![b].Momentum = 0, ![b].AngularMomentum = 0,
               ![b].inv_mass = construct_inv_mass(b)]

(* ---------------- System / integrator operations ---------------- *)
num_bodies == NumBodies

get_state_pos(bd, sb, i) == [x |-> bd[sb[i]].Position, q |-> bd[sb[i]].Orientation]
get_state_vel(bd, sb, i) == [p |-> bd[sb[i]].Momentum, l |-> bd[sb[i]].AngularMomentum]

set_state_pos(bd, sb, s, i) ==
    [bd EXCEPT ![sb[i]].Position = s.x, ![sb[i]].Orientation = s.q]
set_state_vel(bd, sb, s, i) ==
    [bd EXCEPT ![sb[i]].Momentum = s.p, ![sb[i]].AngularMomentum = s.l]

RECURSIVE ZeroForcesFrom(_, _)
ZeroForcesFrom(bd, b) ==
    IF b > num_bodies THEN bd ELSE ZeroForcesFrom([bd EXCEPT ![b].forces = 0], b + 1)

zero_forces(bd) == ZeroForcesFrom(bd, 1)

RECURSIVE AddGravityFrom(_, _)
AddGravityFrom(bd, b) ==
    IF b > num_bodies THEN bd
    ELSE AddGravityFrom(IF bd[b].inv_mass > 0
                        THEN [bd EXCEPT ![b].forces = @ + Gravity]
                        ELSE bd, b + 1)

\* force += mass * g on movable bodies (unit masses in this scene)
add_gravity(bd) == AddGravityFrom(bd, 1)

\* gravity exerts no torque: the angular momentum is changed by impulses only
integrate_vel(bd, sb, i) ==
    IF bd[sb[i]].inv_mass = 0 THEN bd
    ELSE [bd EXCEPT ![sb[i]].Momentum = @ + bd[sb[i]].forces * dt]

integrate_pos(bd, sb, i) ==
    IF bd[sb[i]].inv_mass = 0 THEN bd
    ELSE [bd EXCEPT ![sb[i]].Position = @ + bd[sb[i]].Momentum * bd[sb[i]].inv_mass * dt,
                    ![sb[i]].Orientation = @ + bd[sb[i]].AngularMomentum * dt]

RECURSIVE GetAll(_, _, _, _)
\* for(i) { get_state_pos(prev_pos + i, i); get_state_vel(prev_vel + i, i); }
GetAll(bd, sb, pv, i) ==
    IF i > num_bodies THEN pv
    ELSE GetAll(bd, sb,
                [pos |-> [pv.pos EXCEPT ![i] = get_state_pos(bd, sb, i)],
                 vel |-> [pv.vel EXCEPT ![i] = get_state_vel(bd, sb, i)]], i + 1)

RECURSIVE SetAll(_, _, _, _, _)
\* for(i) { set_state_pos(prev_pos + i, i); set_state_vel(prev_vel + i, i); }
SetAll(bd, sb, pp, pv, i) ==
    IF i > num_bodies THEN bd
    ELSE SetAll(set_state_vel(set_state_pos(bd, sb, pp[i], i), sb, pv[i], i),
                sb, pp, pv, i + 1)

RECURSIVE IntegrateAll(_, _, _)
\* for(i) { integrate_vel(i); integrate_pos(i); }
IntegrateAll(bd, sb, i) ==
    IF i > num_bodies THEN bd
    ELSE IntegrateAll(integrate_pos(integrate_vel(bd, sb, i), sb, i), sb, i + 1)

RECURSIVE IntegrateVelAll(_, _, _)
IntegrateVelAll(bd, sb, i) ==
    IF i > num_bodies THEN bd
    ELSE IntegrateVelAll(integrate_vel(bd, sb, i), sb, i + 1)

RECURSIVE IntegratePosAll(_, _, _)
IntegratePosAll(bd, sb, i) ==
    IF i > num_bodies THEN bd
    ELSE IntegratePosAll(integrate_pos(bd, sb, i), sb, i + 1)

(* ---------------- impulses ---------------- *)
\* an impulse d on a body: ignored by a fixed body (or one treated as fixed)
apply_impulse(bd, b, d) ==
    IF bd[b].inv_mass = 0 THEN bd
    ELSE [bd EXCEPT ![b].Momentum = @ + d, ![b].AngularMomentum = @ + d]

\* the magnitudes of the impulses a resolver can apply: 0 stands for one below the
\* unit of momentum; at most MaxImpulses impulses of a unit are followed in a run
ImpulseChoices == IF impulses < MaxImpulses THEN {0, 1} ELSE {0}

\* impulses are repulsive: of two bodies of the stack the upper one is pushed up
Push(b, o, s) == IF b > o THEN s ELSE -s

\* the bodies of the tall stack that can touch: neighbours in the stack (the floor
\* and the lowest box, a box and the box above it); which of them do is an input
CanTouch(a, b) == a - b = 1 \/ b - a = 1

\* position, orientation and momenta of every body, by body id
DynState(bd) ==
    [b \in Bodies |-> [x |-> bd[b].Position, q |-> bd[b].Orientation,
                       p |-> bd[b].Momentum, l |-> bd[b].AngularMomentum]]

NoPre == [st |-> DynState(init_tall_stack), imp |-> 0]
\* calls made so far in the phase of the tick, and the last call of the contact
\* phase: "none", "graph_initial", "graph", "integrate_vel" or "contact_detect"
NoCalls == [calls |-> 0, trues |-> 0, shocks |-> 0, last |-> "none"]

Init ==
    /\ pc = "idle"
    /\ count = 0
    /\ body = init_tall_stack
    /\ sysB = [i \in Slots |-> i]
    /\ bVector = [i \in Slots |-> i]
    /\ prev_pos = NoPrevPos
    /\ prev_vel = NoPrevVel
    /\ ticks = 0
    /\ impulses = 0
    /\ pre = NoPre
    /\ h = NoCalls

(* ---------------- idle_func ---------------- *)
\* timer callback entry: the timed reset never runs (reset_time is never set)
IdleEnter ==
    /\ pc = "idle"
    /\ ticks < MaxTicks
    /\ ticks' = ticks + 1
    /\ pc' = "shuffle"
    /\ pre' = [st |-> DynState(body), imp |-> impulses]
    /\ UNCHANGED <<count, body, sysB, bVector, prev_pos, prev_vel, impulses, h>>

\* ShuffleSwap without the test that both bodies are movable
ShuffleSwap_Unguarded(sb, bd, jj, kk) ==
    [sb EXCEPT ![jj + 1] = sb[kk + 1], ![kk + 1] = sb[jj + 1]]

\* ShuffleSwap without the temporary: the second store copies the entry back
ShuffleSwap_Overwrite(sb, bd, jj, kk) ==
    IF bd[sb[jj + 1]].inv_mass > 0 /\ bd[sb[kk + 1]].inv_mass > 0
    THEN [sb EXCEPT ![jj + 1] = sb[kk + 1]]
    ELSE sb

\* body of the shuffle loop: jj, kk are rand() % num_bodies (0-based)
ShuffleSwap(sb, bd, jj, kk) ==
    IF bd[sb[jj + 1]].inv_mass > 0 /\ bd[sb[kk + 1]].inv_mass > 0
    THEN [sb EXCEPT ![jj + 1] = sb[kk + 1], ![kk + 1] = sb[jj + 1]]
    ELSE sb

\* the orders one more iteration of the shuffle loop can make of the orders in S
ShuffleStep(S, bd) ==
    {ShuffleSwap(sb, bd, jj, kk) :
        sb \in S, jj \in 0..(num_bodies - 1), kk \in 0..(num_bodies - 1)}

RECURSIVE ShuffleLoop(_, _, _)
\* for(ii = 0; ii < 15; ii++): the orders sys->bVector can have after n iterations
ShuffleLoop(sb, bd, n) ==
    IF n = 0 THEN {sb} ELSE ShuffleStep(ShuffleLoop(sb, bd, n - 1), bd)

\* randomly shuffle the body array to eliminate bias
IdleShuffle ==
    /\ pc = "shuffle"
    /\ sysB' \in ShuffleLoop(sysB, body, NumShuffle)
    /\ pc' = "snapshot"
    /\ UNCHANGED <<count, body, bVector, prev_pos, prev_vel, ticks, impulses, pre, h>>

\* TentativeIntegrate without the zero_forces before add_gravity
TentativeIntegrate_NoZero(bd, sb) == IntegrateAll(add_gravity(bd), sb, 1)

\* set system to x' and v'
TentativeIntegrate(bd, sb) == IntegrateAll(add_gravity(zero_forces(bd)), sb, 1)

\* IdleSnapshot that takes the snapshot and swaps the entries of the body array
\* after it
IdleSnapshot_BeforeShuffle ==
    /\ pc = "snapshot"
    /\ LET pv == GetAll(body, sysB, [pos |-> prev_pos, vel |-> prev_vel], 1) IN
         /\ prev_pos' = pv.pos
         /\ prev_vel' = pv.vel
    /\ sysB' \in ShuffleLoop(sysB, body, NumShuffle)
    /\ body' = TentativeIntegrate(body, sysB)
    /\ count' = 0
    /\ pc' = "collide"
    /\ UNCHANGED <<bVector, ticks, impulses, pre, h>>

\* get x and v; set system to x' and v'; count = 0
IdleSnapshot ==
    /\ pc = "snapshot"
    /\ LET pv == GetAll(body, sysB, [pos |-> prev_pos, vel |-> prev_vel], 1) IN
         /\ prev_pos' = pv.pos
         /\ prev_vel' = pv.vel
    /\ body' = TentativeIntegrate(body, sysB)
    /\ count' = 0
    /\ pc' = "collide"
    /\ UNCHANGED <<sysB, bVector, ticks, impulses, pre, h>>

(* ---------------- System::collsion_detect ---------------- *)
\* an impulse on the body of slot i, written into the saved velocities
\* (prev_vel "has collision info"); a fixed body ignores it
slot_impulse(pvel, bd, sb, i, d) ==
    IF bd[sb[i]].inv_mass = 0 THEN pvel
    ELSE [pvel EXCEPT ![i].p = @ + d, ![i].l = @ + d]

\* the scan found the bodies of slots i < j colliding: an impulse of magnitude s
\* on each of them
collsion_detect(pvel, bd, sb, i, j, s) ==
    IF s = 0 THEN pvel
    ELSE slot_impulse(slot_impulse(pvel, bd, sb, i, Push(sb[i], sb[j], s)),
                      bd, sb, j, Push(sb[j], sb[i], s))

\* the colliding pairs the scan can find: i < j, at least one movable
CollisionPairs(bd, sb) ==
    {p \in Slots \X Slots :
        /\ p[1] < p[2]
        /\ bd[sb[p[1]]].inv_mass > 0 \/ bd[sb[p[2]]].inv_mass > 0
        /\ CanTouch(sb[p[1]], sb[p[2]])}

\* body of the collision loop after count++: rewind to x and v, re-integrate
CollisionPass(bd, sb, pp, pv) ==
    TentativeIntegrate(SetAll(bd, sb, pp, pv, 1), sb)

\* the outcomes of a call of collsion_detect: its return value hit (an impulse was
\* applied), prev_vel with the impulses, and the count of unit impulses
CollisionOutcomes ==
    {[hit |-> FALSE, pv |-> prev_vel, imp |-> impulses]} \cup
    {[hit |-> TRUE, pv |-> collsion_detect(prev_vel, body, sysB, p[1], p[2], s),
      imp |-> impulses + s] : p \in CollisionPairs(body, sysB), s \in ImpulseChoices}

\* one evaluation of the while condition, and the loop body when it holds
IdleCollide ==
    /\ pc = "collide"
    /\ \E o \in CollisionOutcomes :
         /\ prev_vel' = o.pv
         /\ impulses' = o.imp
         /\ h' = [h EXCEPT !.calls = @ + 1, !.trues = IF o.hit THEN @ + 1 ELSE @]
         /\ IF o.hit /\ count < MAX_COLLISIONS
            THEN /\ count' = count + 1
                 /\ body' = CollisionPass(body, sysB, prev_pos, o.pv)
                 /\ pc' = "collide"
            ELSE /\ count' = count
                 /\ body' = body
                 /\ pc' = "restore"
    /\ UNCHANGED <<sysB, bVector, prev_pos, ticks, pre>>

\* IdleRestore without the set_state calls that rewind the bodies
IdleRestore_NoRewind ==
    /\ pc = "restore"
    /\ body' = add_gravity(zero_forces(body))
    /\ pc' = "ccg_initial"
    /\ h' = NoCalls
    /\ UNCHANGED <<count, sysB, bVector, prev_pos, prev_vel, ticks, impulses, pre>>

\* set the system back to x and v where v has final collision info; update forces
IdleRestore ==
    /\ pc = "restore"
    /\ body' = add_gravity(zero_forces(SetAll(body, sysB, prev_pos, prev_vel, 1)))
    /\ pc' = "ccg_initial"
    /\ h' = NoCalls
    /\ UNCHANGED <<count, sysB, bVector, prev_pos, prev_vel, ticks, impulses, pre>>

(* ---------------- System::topological_tarjan ---------------- *)
\* Tarjan's strongly connected components over the edges b -> in_contact_list[b],
\* roots taken in the order of sys->bVector; a component is numbered when it is
\* popped, so a support is numbered before what rests on it
TarjanInit ==
    [ index |-> [b \in Bodies |-> -1], lowlink |-> [b \in Bodies |-> -1],
      in_stack |-> [b \in Bodies |-> FALSE], S |-> << >>, idx |-> 0,
      top_sorted |-> << >>, SCC_num |-> 0, scc |-> [b \in Bodies |-> 0] ]

RECURSIVE pop_scc(_, _)
pop_scc(t, v) ==
    LET w == Head(t.S)
        t1 == [t EXCEPT !.S = Tail(@), !.in_stack[w] = FALSE, !.scc[w] = t.SCC_num,
                        !.top_sorted = Append(@, w)]
    IN IF w = v THEN [t1 EXCEPT !.SCC_num = @ + 1] ELSE pop_scc(t1, v)

RECURSIVE strongconnect(_, _, _), visit_edges(_, _, _, _)
visit_edges(bd, t, v, e) ==
    IF e > Len(bd[v].in_contact_list) THEN t
    ELSE LET w == bd[v].in_contact_list[e] IN
         IF t.index[w] = -1
         THEN LET t2 == strongconnect(bd, t, w) IN
              visit_edges(bd, [t2 EXCEPT !.lowlink[v] = Min(@, t2.lowlink[w])], v, e + 1)
         ELSE IF t.in_stack[w]
         THEN visit_edges(bd, [t EXCEPT !.lowlink[v] = Min(@, t.index[w])], v, e + 1)
         ELSE visit_edges(bd, t, v, e + 1)

strongconnect(bd, t, v) ==
    LET t1 == [t EXCEPT !.index[v] = t.idx, !.lowlink[v] = t.idx, !.idx = @ + 1,
                        !.S = <<v>> \o @, !.in_stack[v] = TRUE]
        t2 == visit_edges(bd, t1, v, 1)
    IN IF t2.lowlink[v] = t2.index[v] THEN pop_scc(t2, v) ELSE t2

RECURSIVE tarjan_roots(_, _, _, _)
tarjan_roots(bd, sb, t, i) ==
    IF i > num_bodies THEN t
    ELSE tarjan_roots(bd, sb,
                      IF t.index[sb[i]] = -1 THEN strongconnect(bd, t, sb[i]) ELSE t,
                      i + 1)

topological_tarjan(bd, sb) == tarjan_roots(bd, sb, TarjanInit, 1)

(* ---------------- create_contact_graph ---------------- *)
\* for(i) bVector[i]->in_contact_list.clear()
RECURSIVE ClearContactsFrom(_, _, _)
ClearContactsFrom(bd, lb, i) ==
    IF i > num_bodies THEN bd
    ELSE ClearContactsFrom([bd EXCEPT ![lb[i]].in_contact_list = << >>], lb, i + 1)

\* ClearContacts that leaves the lists of the earlier call in place
ClearContacts_None(bd, lb) == bd

ClearContacts(bd, lb) == ClearContactsFrom(bd, lb, 1)

RECURSIVE Contacts(_, _, _, _)
\* the k loop: the bodies bVector[k], k # i, in index order, whose intersection_test
\* with bVector[i] succeeds (hits: the slots k for which it does)
Contacts(lb, i, hits, k) ==
    IF k > num_bodies THEN << >>
    ELSE (IF k # i /\ k \in hits THEN <<lb[k]>> ELSE << >>) \o Contacts(lb, i, hits, k + 1)

\* the probe's step of the body of slot i: if(is_initial) integrate_vel, then
\* integrate_pos
ProbeAdvance(bd, sb, is_initial, i) ==
    integrate_pos(IF is_initial THEN integrate_vel(bd, sb, i) ELSE bd, sb, i)

\* ProbeBody without the set_state_vel that takes the probe's velocity step back
ProbeBody_NoVelRestore(w, sb, lb, is_initial, hits, i) ==
    LET pos == [w.pos EXCEPT ![i] = get_state_pos(w.bd, sb, i)]
        vel == [w.vel EXCEPT ![i] = get_state_vel(w.bd, sb, i)]
        b2 == ProbeAdvance(w.bd, sb, is_initial, i)
        b3 == [b2 EXCEPT ![lb[i]].in_contact_list = @ \o Contacts(lb, i, hits, 1)]
        b4 == set_state_pos(b3, sb, pos[i], i)
    IN [bd |-> b4, pos |-> pos, vel |-> vel]

\* ProbeBody without the set_state_pos that takes the probe's position step back
ProbeBody_NoPosRestore(w, sb, lb, is_initial, hits, i) ==
    LET pos == [w.pos EXCEPT ![i] = get_state_pos(w.bd, sb, i)]
        vel == [w.vel EXCEPT ![i] = get_state_vel(w.bd, sb, i)]
        b2 == ProbeAdvance(w.bd, sb, is_initial, i)
        b3 == [b2 EXCEPT ![lb[i]].in_contact_list = @ \o Contacts(lb, i, hits, 1)]
        b5 == set_state_vel(b3, sb, vel[i], i)
    IN [bd |-> b5, pos |-> pos, vel |-> vel]

\* ProbeBody that puts the saved state back through the local array, into
\* bVector[i], instead of the System's body i
ProbeBody_RestoreLocal(w, sb, lb, is_initial, hits, i) ==
    LET pos == [w.pos EXCEPT ![i] = get_state_pos(w.bd, sb, i)]
        vel == [w.vel EXCEPT ![i] = get_state_vel(w.bd, sb, i)]
        b2 == ProbeAdvance(w.bd, sb, is_initial, i)
        b3 == [b2 EXCEPT ![lb[i]].in_contact_list = @ \o Contacts(lb, i, hits, 1)]
        b4 == set_state_pos(b3, lb, pos[i], i)
        b5 == set_state_vel(b4, lb, vel[i], i)
    IN [bd |-> b5, pos |-> pos, vel |-> vel]

\* body of the i loop for a movable bVector[i]: w = [bd, pos, vel]
ProbeBody(w, sb, lb, is_initial, hits, i) ==
    LET pos == [w.pos EXCEPT ![i] = get_state_pos(w.bd, sb, i)]
        vel == [w.vel EXCEPT ![i] = get_state_vel(w.bd, sb, i)]
        b2 == ProbeAdvance(w.bd, sb, is_initial, i)
        b3 == [b2 EXCEPT ![lb[i]].in_contact_list = @ \o Contacts(lb, i, hits, 1)]
        b4 == set_state_pos(b3, sb, pos[i], i)
        b5 == set_state_vel(b4, sb, vel[i], i)
    IN [bd |-> b5, pos |-> pos, vel |-> vel]

RECURSIVE ProbeAll(_, _, _, _, _, _)
ProbeAll(w, sb, lb, is_initial, touch, i) ==
    IF i > num_bodies THEN w
    ELSE ProbeAll(IF w.bd[lb[i]].inv_mass # 0
                  THEN ProbeBody(w, sb, lb, is_initial, touch[i], i)
                  ELSE w,
                  sb, lb, is_initial, touch, i + 1)

\* sort bodies based on the new contact graph: sys->bVector becomes top_sorted
RECURSIVE StoreSCC(_, _, _)
StoreSCC(bd, scc, b) ==
    IF b > num_bodies THEN bd
    ELSE StoreSCC([bd EXCEPT ![b].SCC_num = scc[b]], scc, b + 1)

\* SortBodies without the call of topological_tarjan
SortBodies_Skip(bd, sb) == [bd |-> bd, sb |-> sb]

SortBodies(bd, sb) ==
    LET t == topological_tarjan(bd, sb) IN
    [bd |-> StoreSCC(bd, t.scc, 1), sb |-> t.top_sorted]

\* the whole call: [bd, pos, vel, sb]; the local copy is then set to sb
create_contact_graph(bd, sb, lb, pp, pv, is_initial, touch) ==
    LET w == ProbeAll([bd |-> ClearContacts(bd, lb), pos |-> pp, vel |-> pv],
                      sb, lb, is_initial, touch, 1)
        r == SortBodies(w.bd, sb)
    IN [bd |-> r.bd, pos |-> w.pos, vel |-> w.vel, sb |-> r.sb]

\* the faces on which the boxes of the stack touch a neighbour at a probe
Faces == {"below", "above"}

\* the slots k whose body touches bVector[i] on one of the faces f
FaceHits(lb, i, f) ==
    {k \in Slots : \/ "below" \in f /\ lb[k] = lb[i] - 1
                   \/ "above" \in f /\ lb[k] = lb[i] + 1}

\* results of the intersection tests of one call of a tick: slot i -> slots k that
\* touch it; in one call the boxes all touch on the same faces (free fall, the stack
\* at rest, the stack pushed up, or both)
Touches(bd, lb) ==
    {[i \in Slots |-> FaceHits(lb, i, f)] : f \in SUBSET Faces}

CCG(is_initial) ==
    \E touch \in Touches(body, bVector) :
        LET r == create_contact_graph(body, sysB, bVector, prev_pos, prev_vel,
                                      is_initial, touch) IN
        /\ body' = r.bd
        /\ prev_pos' = r.pos
        /\ prev_vel' = r.vel
        /\ sysB' = r.sb
        /\ bVector' = r.sb
        /\ h' = [h EXCEPT !.last = IF is_initial THEN "graph_initial" ELSE "graph"]

\* create the initial contact graph
IdleContactGraphInitial ==
    /\ pc = "ccg_initial"
    /\ CCG(TRUE)
    /\ pc' = "integrate_vel"
    /\ UNCHANGED <<count, ticks, impulses, pre>>

\* integrate velocity; count = 0
IdleIntegrateVel ==
    /\ pc = "integrate_vel"
    /\ body' = IntegrateVelAll(body, sysB, 1)
    /\ count' = 0
    /\ pc' = "contact"
    /\ h' = [h EXCEPT !.last = "integrate_vel"]
    /\ UNCHANGED <<sysB, bVector, prev_pos, prev_vel, ticks, impulses, pre>>

(* ---------------- System::contact_detect ---------------- *)
\* the contact edges the solver walks: movable body b, position e in its list
ContactEdges(bd) ==
    {c \in Bodies \X (1..num_bodies) :
        bd[c[1]].inv_mass # 0 /\ c[2] <= Len(bd[c[1]].in_contact_list)}

\* in a shock-propagation pass the body of the lower SCC id is treated as fixed
TreatedFixed(bd, b, o, shock) == shock /\ bd[b].SCC_num < bd[o].SCC_num

\* an impulse of magnitude s on body b along its contact edge e, and the opposite
\* one on the body it touches
contact_detect(bd, b, e, s, shock) ==
    LET o == bd[b].in_contact_list[e]
        b1 == IF TreatedFixed(bd, b, o, shock) THEN bd
              ELSE apply_impulse(bd, b, Push(b, o, s))
    IN IF s = 0 THEN bd
       ELSE IF TreatedFixed(bd, o, b, shock) THEN b1
       ELSE apply_impulse(b1, o, Push(o, b, s))

\* the outcomes of a call of contact_detect: its return value hit (a contact needed
\* an impulse), the bodies with the impulses, and the count of unit impulses
ContactOutcomes(shock) ==
    {[hit |-> FALSE, bd |-> body, imp |-> impulses]} \cup
    {[hit |-> TRUE, bd |-> contact_detect(body, c[1], c[2], s, shock),
      imp |-> impulses + s] : c \in ContactEdges(body), s \in ImpulseChoices}

\* one evaluation of the for condition of the contact loop
IdleContact ==
    /\ pc = "contact"
    /\ \E o \in ContactOutcomes(FALSE) :
         /\ body' = o.bd
         /\ impulses' = o.imp
         /\ h' = [h EXCEPT !.calls = @ + 1, !.trues = IF o.hit THEN @ + 1 ELSE @,
                            !.last = "contact_detect"]
         /\ pc' = IF o.hit /\ count < MAX_CONTACTS THEN "ccg_loop" ELSE "ccg_last"
    /\ UNCHANGED <<count, sysB, bVector, prev_pos, prev_vel, ticks, pre>>

\* IdleContactGraphLoop with the count++ of the for statement left out
IdleContactGraphLoop_NoCount ==
    /\ pc = "ccg_loop"
    /\ CCG(FALSE)
    /\ pc' = "contact"
    /\ UNCHANGED <<count, ticks, impulses, pre>>

\* IdleContactGraphLoop with an empty loop body: count++ only
IdleContactGraphLoop_NoRebuild ==
    /\ pc = "ccg_loop"
    /\ count' = count + 1
    /\ pc' = "contact"
    /\ UNCHANGED <<body, sysB, bVector, prev_pos, prev_vel, ticks, impulses, pre, h>>

\* body of the contact loop, then count++
IdleContactGraphLoop ==
    /\ pc = "ccg_loop"
    /\ CCG(FALSE)
    /\ count' = count + 1
    /\ pc' = "contact"
    /\ UNCHANGED <<ticks, impulses, pre>>

\* update the contact graph after the loop; if(count == MAX_CONTACTS)
IdleContactGraphLast ==
    /\ pc = "ccg_last"
    /\ CCG(FALSE)
    /\ pc' = IF count = MAX_CONTACTS THEN "shock" ELSE "final"
    /\ UNCHANGED <<count, ticks, impulses, pre>>

\* IdleShock with the loop bounded from the carried count on
IdleShock_Loop ==
    /\ pc = "shock"
    /\ \E o \in ContactOutcomes(TRUE) :
         /\ impulses' = o.imp
         /\ h' = [h EXCEPT !.shocks = @ + 1,
                            !.last = IF o.hit /\ count < MAX_CONTACTS + MAX_SHOCK_PROP
                                     THEN "graph" ELSE "contact_detect"]
         /\ IF o.hit /\ count < MAX_CONTACTS + MAX_SHOCK_PROP
            THEN /\ \E touch \in Touches(o.bd, bVector) :
                      LET r == create_contact_graph(o.bd, sysB, bVector, prev_pos,
                                                    prev_vel, FALSE, touch) IN
                      /\ body' = r.bd
                      /\ prev_pos' = r.pos
                      /\ prev_vel' = r.vel
                      /\ sysB' = r.sb
                      /\ bVector' = r.sb
                 /\ count' = count + 1
                 /\ pc' = "shock"
            ELSE /\ body' = o.bd
                 /\ UNCHANGED <<count, sysB, bVector, prev_pos, prev_vel>>
                 /\ pc' = "final"
    /\ UNCHANGED <<ticks, pre>>

\* one evaluation of the for condition of the shock loop, and its body when it holds
IdleShock ==
    /\ pc = "shock"
    /\ \E o \in ContactOutcomes(TRUE) :
         /\ impulses' = o.imp
         /\ h' = [h EXCEPT !.shocks = @ + 1,
                            !.last = IF o.hit /\ count < MAX_SHOCK_PROP
                                     THEN "graph" ELSE "contact_detect"]
         /\ IF o.hit /\ count < MAX_SHOCK_PROP
            THEN /\ \E touch \in Touches(o.bd, bVector) :
                      LET r == create_contact_graph(o.bd, sysB, bVector, prev_pos,
                                                    prev_vel, FALSE, touch) IN
                      /\ body' = r.bd
                      /\ prev_pos' = r.pos
                      /\ prev_vel' = r.vel
                      /\ sysB' = r.sb
                      /\ bVector' = r.sb
                 /\ count' = count + 1
                 /\ pc' = "shock"
            ELSE /\ body' = o.bd
                 /\ UNCHANGED <<count, sysB, bVector, prev_pos, prev_vel>>
                 /\ pc' = "final"
    /\ UNCHANGED <<ticks, pre>>

\* update position; the tick returns and its locals go out of scope
IdleFinal ==
    /\ pc = "final"
    /\ body' = IntegratePosAll(body, sysB, 1)
    /\ pc' = "idle"
    /\ count' = 0
    /\ prev_pos' = NoPrevPos
    /\ prev_vel' = NoPrevVel
    /\ pre' = NoPre
    /\ h' = NoCalls
    /\ UNCHANGED <<sysB, bVector, ticks, impulses>>

(* ---------------- key_func ' ' : remap_GUI ---------------- *)
RECURSIVE ResetFrom(_, _, _)
\* for(ii = 0; ii < size; ii++) bVector[ii]->reset()
ResetFrom(bd, lb, k) ==
    IF k > num_bodies THEN bd ELSE ResetFrom(reset(bd, lb[k]), lb, k + 1)

\* remap_GUI with a loop that resets the body of the last index only
remap_GUI_LastOnly(bd, lb) == ResetFrom(bd, lb, num_bodies)

remap_GUI(bd, lb) == ResetFrom(bd, lb, 1)

KeySpace ==
    /\ pc = "idle"
    /\ body' = remap_GUI(body, bVector)
    /\ UNCHANGED <<pc, count, sysB, bVector, prev_pos, prev_vel, ticks, impulses, pre, h>>

(* ---------------- create_contact_graph on arbitrary contact graphs ---------------- *)
\* the sets of at most MaxTouch slots k # i a probe of slot i can find touching
\* (none for a fixed body)
HitChoices(bd, lb, i) ==
    IF bd[lb[i]].inv_mass = 0 THEN {{}}
    ELSE {hs \in SUBSET (Slots \ {i}) : Cardinality(hs) <= MaxTouch}

RECURSIVE TouchesUpTo(_, _, _)
TouchesUpTo(bd, lb, i) ==
    IF i = 0 THEN {<< >>}
    ELSE {Append(t, hs) : t \in TouchesUpTo(bd, lb, i - 1), hs \in HitChoices(bd, lb, i)}

\* every result the intersection tests of one call can have
AnyTouches(bd, lb) == TouchesUpTo(bd, lb, num_bodies)

\* the orders the shuffle loop can give the body array of the scene
Orders == ShuffleLoop([i \in Slots |-> i], init_tall_stack, NumShuffle)

\* the scene after "update forces", the System's array and the local copy in any
\* order the shuffles and sorts of earlier ticks can have left
GraphInit ==
    /\ pc = "shuffled"
    /\ count = 0
    /\ body = add_gravity(zero_forces(init_tall_stack))
    /\ sysB \in Orders
    /\ bVector \in Orders
    /\ prev_pos = NoPrevPos
    /\ prev_vel = NoPrevVel
    /\ ticks = 0
    /\ impulses = 0
    /\ pre = NoPre
    /\ h = NoCalls

\* a call of create_contact_graph
GraphBuild ==
    /\ pc = "shuffled"
    /\ \E is_initial \in BOOLEAN, touch \in AnyTouches(body, bVector) :
          LET r == create_contact_graph(body, sysB, bVector, prev_pos, prev_vel,
                                        is_initial, touch) IN
          /\ body' = r.bd
          /\ prev_pos' = r.pos
          /\ prev_vel' = r.vel
          /\ sysB' = r.sb
          /\ bVector' = r.sb
    /\ pc' = "built"
    /\ UNCHANGED <<count, ticks, impulses, pre, h>>

SpecGraph == GraphInit /\ [][GraphBuild]_vars

TickStep ==
    \/ IdleShuffle
    \/ IdleSnapshot
    \/ IdleCollide
    \/ IdleRestore
    \/ IdleContactGraphInitial
    \/ IdleIntegrateVel
    \/ IdleContact
    \/ IdleContactGraphLoop
    \/ IdleContactGraphLast
    \/ IdleShock
    \/ IdleFinal

Next ==
    \/ IdleEnter
    \/ TickStep
    \/ KeySpace

Spec == Init /\ [][Next]_vars

(* ---------------- properties ---------------- *)
InitialOrder == [i \in Slots |-> i]

\* the steps of the tick in which the contact loop's calls are counted in h
ContactPhase == pc \in {"contact", "ccg_loop", "ccg_last", "shock", "final"}

\* the steps of the tick in which the collision loop's calls are counted in h
CollisionPhase == pc \in {"collide", "restore"}

\* loop variant of idle_func: the number of steps the tick can still take, at most
RankShock == 2 + MAX_SHOCK_PROP
RankContact == RankShock + 2 + 2 * MAX_CONTACTS
Rank ==
    CASE pc = "idle" -> 0
      [] pc = "final" -> 1
      [] pc = "shock" -> 2 + (IF count < MAX_SHOCK_PROP THEN MAX_SHOCK_PROP - count ELSE 0)
      [] pc = "ccg_last" -> RankShock + 1
      [] pc = "ccg_loop" -> RankShock + 1 + 2 * (MAX_CONTACTS - count)
      [] pc = "contact" -> RankShock + 2 + 2 * (MAX_CONTACTS - count)
      [] pc = "integrate_vel" -> RankContact + 1
      [] pc = "ccg_initial" -> RankContact + 2
      [] pc = "restore" -> RankContact + 3
      [] pc = "collide" -> RankContact + 4 + (MAX_COLLISIONS - count)
      [] pc = "snapshot" -> RankContact + 5 + MAX_COLLISIONS
      [] pc = "shuffle" -> RankContact + 6 + MAX_COLLISIONS
      [] OTHER -> 0

\* the step is the final position update: integrate_pos once for each index
FinalIntegrate ==
    /\ \A b \in Bodies : Cardinality({i \in Slots : sysB[i] = b}) = 1
    /\ \A i \in Slots : body'[sysB[i]] = integrate_pos(body, sysB, i)[sysB[i]]

\* the running tick is at a step of idle_func, and the step has a result to go on with
\* whatever the calls it makes return
TickCanStep ==
    CASE pc = "shuffle" -> ShuffleLoop(sysB, body, NumShuffle) # {}
      [] pc = "collide" -> \E o \in CollisionOutcomes : ~o.hit
      [] pc = "contact" -> \E o \in ContactOutcomes(FALSE) : ~o.hit
      [] pc = "shock" -> \E o \in ContactOutcomes(TRUE) : ~o.hit
      [] pc \in {"ccg_initial", "ccg_loop", "ccg_last"} -> Touches(body, bVector) # {}
      [] pc \in {"snapshot", "restore", "integrate_vel", "final"} -> TRUE
      [] OTHER -> FALSE

\* C1: every tick terminates and returns through the final position update, whatever
\* the detect calls return: a started tick always has a next step, every step of it
\* decreases the variant Rank, and the tick returns only by the step that calls
\* integrate_pos exactly once for each body index.
C1_TickTerminates ==
    /\ [](pc # "idle" => TickCanStep)
    /\ [][TickStep => Rank' < Rank /\ Rank' >= 0]_vars
    /\ [][pc # "idle" /\ pc' = "idle" => pc = "final" /\ FinalIntegrate]_vars

\* a tick whose contact loop saturated has reached the final position update
C1_Witness == pc = "final" /\ h.calls = MAX_CONTACTS + 1

\* C2: collsion_detect is invoked at most MAX_COLLISIONS times in a tick.
C2_AtMostMaxCollisionCalls == CollisionPhase => h.calls <= MAX_COLLISIONS

\* C3: contact_detect(count, false) is invoked at most MAX_CONTACTS times in a tick.
C3_AtMostMaxContactCalls == ContactPhase => h.calls <= MAX_CONTACTS

\* C4: when the last ordinary contact_detect call of the tick returned false, no
\* shock-propagation pass runs (or is about to run) in that tick.
C4_NoShockAfterFalse ==
    ContactPhase /\ pc \notin {"contact", "ccg_loop"} /\ h.trues < h.calls
        => pc # "shock" /\ h.shocks = 0

\* C5: contact_detect(count, true) is called at most once in a tick, and only after
\* the ordinary loop exited with count = MAX_CONTACTS, the ordinary calls made with
\* count 0 .. MAX_CONTACTS - 1 having all returned true; after an ordinary call with
\* count < MAX_CONTACTS returned false it is not called.
C5_AtMostOneShockPass ==
    /\ h.shocks <= 1
    /\ h.shocks > 0 \/ pc = "shock" =>
          ContactPhase /\ count = MAX_CONTACTS /\ h.trues >= MAX_CONTACTS
    /\ ContactPhase /\ h.trues < h.calls /\ h.trues < MAX_CONTACTS =>
          pc # "shock" /\ h.shocks = 0

\* the shock pass has run after a saturated ordinary loop
C5_Witness == pc = "final" /\ h.shocks = 1 /\ h.trues = MAX_CONTACTS + 1

\* C6: a fixed body (inv_mass = 0) keeps, in every state of every tick, its position,
\* orientation and momenta, and its index in the System's array (and in the local
\* copy); it is never probed by create_contact_graph, so it rests on nothing, and
\* the body probed at a movable body's index is movable.
C6_FixedBodyUnchanged ==
    /\ \A b \in Bodies : construct_inv_mass(b) = 0 =>
          /\ body[b].inv_mass = 0
          /\ body[b].Position = ConstructPos(b)
          /\ body[b].Orientation = ConstructOrien(b)
          /\ body[b].Momentum = 0
          /\ body[b].AngularMomentum = 0
          /\ body[b].in_contact_list = << >>
          /\ sysB[b] = b
          /\ bVector[b] = b
    /\ \A i \in Slots : body[bVector[i]].inv_mass # 0 => body[sysB[i]].inv_mass # 0

\* after a tick with a shuffle, a sort and an impulse the boxes have moved and changed
\* places
C6_Witness ==
    /\ pc = "idle"
    /\ ticks > 0
    /\ impulses > 0
    /\ sysB # InitialOrder
    /\ \E b \in Bodies : body[b].Position # ConstructPos(b)

\* C7 (as stated): a reset restores every body's pose and momenta and the order of
\* the System's array (and of the local copy) to those after init_system.
C7_ResetRestoresWorld ==
    [][KeySpace =>
          /\ DynState(body') = DynState(init_tall_stack)
          /\ sysB' = InitialOrder
          /\ bVector' = InitialOrder]_vars

\* C7 (amended): a reset restores every body's pose, momenta and inverse mass to
\* those after init_system; the System's array and the local copy keep the order the
\* shuffles and sorts of the earlier ticks left, a permutation of the bodies.
C7_ResetRestoresBodies ==
    [][KeySpace =>
          /\ DynState(body') = DynState(init_tall_stack)
          /\ \A b \in Bodies : body'[b].inv_mass = construct_inv_mass(b)
          /\ sysB' = sysB /\ bVector' = bVector
          /\ \A b \in Bodies : \E i \in Slots : sysB'[i] = b]_vars

\* after a tick without impulses the bodies are back at their construction state,
\* in another order
C7_Witness ==
    /\ pc = "idle"
    /\ ticks > 0
    /\ impulses = 0
    /\ DynState(body) = DynState(init_tall_stack)
    /\ sysB # InitialOrder

RECURSIVE SumP(_, _)
\* sum of the linear momenta p of the bodies b .. NumBodies of a dynamic state
SumP(st, b) == IF b > NumBodies THEN 0 ELSE st[b].p + SumP(st, b + 1)

RECURSIVE SumGravity(_, _)
\* (sum of the masses of the movable bodies b .. NumBodies) * g
SumGravity(bd, b) ==
    IF b > NumBodies THEN 0
    ELSE (IF bd[b].inv_mass > 0 THEN Gravity ELSE 0) + SumGravity(bd, b + 1)

\* C9: when a tick in which no impulse was applied returns, every movable body's
\* linear momentum is its momentum before the tick plus one force * dt of gravity,
\* and the total momentum has changed by (sum of the masses) * g * dt.
C9_GravityOncePerTick ==
    [][pc = "final" /\ pc' = "idle" /\ impulses = pre.imp =>
          /\ \A b \in Bodies : body[b].inv_mass > 0 =>
                /\ body'[b].forces = Gravity
                /\ body'[b].Momentum = pre.st[b].p + body'[b].forces * dt
          /\ SumP(DynState(body'), 1) = SumP(pre.st, 1) + SumGravity(body, 1) * dt]_vars

\* a tick without impulses is about to return with one step of gravity in the momenta
C9_Witness ==
    /\ pc = "final"
    /\ impulses = pre.imp
    /\ \A b \in Bodies : body[b].inv_mass > 0 =>
          body[b].Momentum = pre.st[b].p + Gravity * dt

\* a -> b is a contact edge: b is in a's in_contact_list
Edge(a, b) == \E e \in 1..Len(body[a].in_contact_list) : body[a].in_contact_list[e] = b

RECURSIVE ReachIn(_, _, _)
\* b can be reached from a along at most n contact edges
ReachIn(a, b, n) ==
    \/ a = b
    \/ n > 0 /\ \E c \in Bodies : Edge(a, c) /\ ReachIn(c, b, n - 1)

Reach(a, b) == ReachIn(a, b, NumBodies)

\* a call of create_contact_graph has returned and nothing has reordered the array since
GraphBuilt ==
    pc \in {"built", "integrate_vel", "contact", "ccg_loop", "ccg_last", "shock", "final"}

\* C10: after every create_contact_graph call the SCC ids and the order of the
\* System's array are a valid condensation of the graph just built: no contact edge
\* a -> b has scc(a) < scc(b), two bodies have the same id exactly when each can be
\* reached from the other, every body is in the array exactly once, in the order of
\* the ids, and the local copy is the System's array.
C10_ValidCondensation ==
    GraphBuilt =>
        /\ \A a, b \in Bodies : Edge(a, b) => body[b].SCC_num <= body[a].SCC_num
        /\ \A a, b \in Bodies :
              (body[a].SCC_num = body[b].SCC_num) <=> (Reach(a, b) /\ Reach(b, a))
        /\ \A b \in Bodies : Cardinality({i \in Slots : sysB[i] = b}) = 1
        /\ \A i, j \in Slots : i < j => body[sysB[i]].SCC_num <= body[sysB[j]].SCC_num
        /\ bVector = sysB

\* a graph with a cycle, and a body resting on the cycle, has been sorted
C10_Witness ==
    /\ pc = "built"
    /\ \E a, b, c \in Bodies :
          /\ a # b /\ Edge(a, b) /\ Edge(b, a)
          /\ Edge(c, a) /\ ~Reach(a, c)

(* ---------------- the first two steps of a tick ---------------- *)
\* the (x, v) of the bodies of the System's array sb, by slot
Captured(bd, sb) ==
    [pos |-> [i \in Slots |-> get_state_pos(bd, sb, i)],
     vel |-> [i \in Slots |-> get_state_vel(bd, sb, i)]]

\* the steps of a tick that build the contact graph (and so sort the body array)
GraphStep == pc \in {"ccg_initial", "ccg_loop", "ccg_last", "shock"}

\* C11 as stated: the snapshot is taken first and the random swaps come after it,
\* so whenever the shuffle loop runs, prev_pos and prev_vel already hold the
\* (x, v) of all bodies
C11_SnapshotBeforeShuffle ==
    [][pc = "shuffle" /\ pc' = "snapshot"
          => /\ prev_pos = Captured(body, sysB).pos
             /\ prev_vel = Captured(body, sysB).vel]_vars

\* C11 amended: the random swaps are performed first, while prev_pos and prev_vel
\* hold nothing yet; the snapshot is taken after them, slot i from the body the
\* shuffle left at index i, and the body array is not permuted by the snapshot or
\* between it and the first create_contact_graph call
C11_ShuffleBeforeSnapshot ==
    [][/\ pc = "shuffle" /\ pc' = "snapshot"
            => prev_pos = NoPrevPos /\ prev_vel = NoPrevVel
       /\ pc = "snapshot" /\ pc' = "collide"
            => /\ prev_pos' = Captured(body, sysB').pos
               /\ prev_vel' = Captured(body, sysB').vel
       /\ sysB' # sysB => pc = "shuffle" \/ GraphStep]_vars

\* a tick whose shuffle moved bodies and whose snapshot holds, in a moved slot,
\* the pre-tick state of the body now at that slot
C11_Witness ==
    /\ pc = "collide"
    /\ count = 0
    /\ \E i \in Slots :
          /\ sysB[i] # bVector[i]
          /\ prev_pos[i].x = pre.st[sysB[i]].x
          /\ prev_pos[i].x # pre.st[bVector[i]].x

(* ---------------- the shuffle ---------------- *)
\* the array sb with the entries of the 0-based indices jj and kk exchanged
Exchanged(sb, jj, kk) == [sb EXCEPT ![jj + 1] = sb[kk + 1], ![kk + 1] = sb[jj + 1]]

\* the draws rand() % num_bodies of one iteration
Draws == 0..(num_bodies - 1)

IsPermutation(sb) == \A b \in Bodies : Cardinality({i \in Slots : sb[i] = b}) = 1

\* C12 as stated: the shuffle performs 15 swaps: in each of the iterations,
\* whatever the two indices drawn, the two entries are exchanged
C12_EveryIterationSwaps ==
    pc = "shuffle" =>
        \A sb \in ShuffleLoop(sysB, body, NumShuffle) : \A jj, kk \in Draws :
            ShuffleSwap(sb, body, jj, kk) = Exchanged(sb, jj, kk)

\* C12 amended: the shuffle performs at most 15 swaps: each of the 15 iterations
\* exchanges the two entries drawn when both bodies have inv_mass > 0 and leaves
\* the array as it is otherwise; after the shuffle the array is a permutation of
\* the array before it in which every fixed body is at its old index, and no body
\* has changed
C12_ShufflePermutes ==
    /\ [](pc = "shuffle" =>
            \A sb \in ShuffleLoop(sysB, body, NumShuffle) : \A jj, kk \in Draws :
                ShuffleSwap(sb, body, jj, kk) =
                    IF body[sb[jj + 1]].inv_mass > 0 /\ body[sb[kk + 1]].inv_mass > 0
                    THEN Exchanged(sb, jj, kk) ELSE sb)
    /\ [][pc = "shuffle" /\ pc' = "snapshot"
            => /\ IsPermutation(sysB) /\ IsPermutation(sysB')
               /\ \A i \in Slots : body[sysB[i]].inv_mass = 0 => sysB'[i] = sysB[i]
               /\ \A i \in Slots : body[sysB'[i]].inv_mass = 0 => sysB'[i] = sysB[i]
               /\ body' = body]_vars

\* a shuffle has moved two boxes and left the floor at its index
C12_Witness ==
    /\ pc = "snapshot"
    /\ sysB[1] = bVector[1]
    /\ \E i, j \in Slots : i # j /\ sysB[i] = bVector[j] /\ sysB[j] = bVector[i]

(* ---------------- the contact lists after create_contact_graph ---------------- *)
\* the step ends with a call of create_contact_graph
GraphCall == GraphStep /\ h'.last \in {"graph_initial", "graph"}

\* C13: after any call of create_contact_graph every body's in_contact_list holds
\* exactly the edges found by the probes of that call, in index order (nothing
\* survives from an earlier call or tick), a body of inv_mass 0 has an empty list,
\* and no body has an edge to itself
C13_ListsRewritten ==
    [][GraphCall =>
          /\ \E touch \in Touches(body', bVector) : \A i \in Slots :
                body'[bVector[i]].in_contact_list =
                    IF body'[bVector[i]].inv_mass # 0
                    THEN Contacts(bVector, i, touch[i], 1) ELSE << >>
          /\ \A b \in Bodies :
                /\ body'[b].inv_mass = 0 => body'[b].in_contact_list = << >>
                /\ \A e \in 1..Len(body'[b].in_contact_list) :
                      body'[b].in_contact_list[e] # b]_vars

\* a second call of a tick found no contact: the edge the solver resolved after
\* the first call is gone from every list
C13_Witness ==
    /\ pc = "contact"
    /\ count >= 1
    /\ h.last = "graph"
    /\ \A b \in Bodies : body[b].in_contact_list = << >>

(* ---------------- create_contact_graph and the dynamic state ---------------- *)
RECURSIVE ProbeUpTo(_, _, _, _, _, _)
\* the i loop of create_contact_graph after its iterations 1..n
ProbeUpTo(w, sb, lb, is_initial, touch, n) ==
    IF n = 0 THEN w
    ELSE LET u == ProbeUpTo(w, sb, lb, is_initial, touch, n - 1) IN
         IF u.bd[lb[n]].inv_mass # 0
         THEN ProbeBody(u, sb, lb, is_initial, touch[n], n)
         ELSE u

\* the state create_contact_graph starts its i loop from
ProbeEntry == [bd |-> ClearContacts(body, bVector), pos |-> prev_pos, vel |-> prev_vel]

\* a call of create_contact_graph is about to run, on the bodies as they are
AtGraphCall == pc \in {"ccg_initial", "ccg_loop", "ccg_last"}

\* C14: create_contact_graph leaves the position, orientation and momenta of every
\* body as it found them; between two probes every body is in its entry state,
\* and while a probe runs only the System's body of the probed index is displaced
C14_GraphKeepsDynState ==
    /\ [](AtGraphCall =>
            \A touch \in Touches(body, bVector) :
               LET is_initial == pc = "ccg_initial"
                   at(n) == ProbeUpTo(ProbeEntry, sysB, bVector, is_initial, touch, n)
               IN /\ at(num_bodies) = ProbeAll(ProbeEntry, sysB, bVector, is_initial, touch, 1)
                  /\ \A n \in 0..num_bodies : DynState(at(n).bd) = DynState(body)
                  /\ \A i \in Slots : \A b \in Bodies \ {sysB[i]} :
                        DynState(ProbeAdvance(at(i - 1).bd, sysB, is_initial, i))[b]
                            = DynState(body)[b])
    /\ [][AtGraphCall => DynState(body') = DynState(body)]_vars

\* the initial call of a tick has returned: a box its probe moved under gravity,
\* and found resting on another body, is where and as fast as it was before
C14_Witness ==
    /\ pc = "integrate_vel"
    /\ h.last = "graph_initial"
    /\ \E i \in Slots :
          /\ body[sysB[i]].in_contact_list # << >>
          /\ DynState(ProbeAdvance(body, sysB, TRUE, i))[sysB[i]] # DynState(body)[sysB[i]]
          /\ get_state_pos(body, sysB, i) = prev_pos[i]
          /\ get_state_vel(body, sysB, i) = prev_vel[i]

(* ---------------- positions advance once per tick ---------------- *)
\* every body is at its pre-tick position and orientation
AtPreTickPose ==
    \A b \in Bodies : /\ body[b].Position = pre.st[b].x
                      /\ body[b].Orientation = pre.st[b].q

\* C15: after the collision loop, at entry to every create_contact_graph call and
\* at every contact_detect call of the tick, every body's position and orientation
\* equal the pre-tick snapshot, however many collision passes rewound and
\* re-integrated them; the end-of-tick position of a movable body is the pre-tick
\* position advanced by one integrate_pos with the final velocity
C15_PositionsAdvanceOnce ==
    /\ [](pc \in {"ccg_initial", "integrate_vel", "contact", "ccg_loop", "ccg_last",
                  "shock", "final"} => AtPreTickPose)
    /\ [][pc = "final" /\ pc' = "idle" =>
            \A b \in Bodies :
               /\ body'[b].Momentum = body[b].Momentum
               /\ body'[b].AngularMomentum = body[b].AngularMomentum
               /\ body'[b].Position =
                     pre.st[b].x + body[b].Momentum * body[b].inv_mass * dt
               /\ body'[b].Orientation =
                     pre.st[b].q + body[b].inv_mass * body[b].AngularMomentum * dt]_vars

\* the collision loop ran all its passes, each rewinding and re-integrating the
\* bodies, and an impulse has set a box moving; the first create_contact_graph
\* call finds every body at the pre-tick pose
C15_Witness ==
    /\ pc = "ccg_initial"
    /\ count = MAX_COLLISIONS
    /\ AtPreTickPose
    /\ \E b \in Bodies : body[b].Momentum # 0

(* ---------------- the contact graph is rebuilt between contact passes ---------------- *)
\* the step makes a call of contact_detect (ordinary or shock)
ContactDetectCall ==
    \/ pc = "contact" /\ h'.calls = h.calls + 1
    \/ pc = "shock" /\ h'.shocks = h.shocks + 1

\* C16: in every tick, whatever contact_detect returns, the first contact_detect
\* call comes right after the velocity integrate that follows the
\* create_contact_graph(is_initial = true) call, every later contact_detect call
\* (ordinary or shock) comes right after a create_contact_graph call, and every
\* create_contact_graph call but the first of the tick has is_initial = false
C16_GraphRebuiltBetweenPasses ==
    [][/\ ContactDetectCall =>
             IF pc = "contact" /\ h.calls = 0
             THEN h.last = "integrate_vel" ELSE h.last = "graph"
       /\ h'.last = "integrate_vel" /\ h.last # "integrate_vel"
             => h.last = "graph_initial"
       /\ GraphCall =>
             IF pc = "ccg_initial"
             THEN h.last = "none" /\ h'.last = "graph_initial"
             ELSE h.last = "contact_detect" /\ h'.last = "graph"]_vars

\* two ordinary passes and the rebuild between them are done, and the next
\* rebuild has run
C16_Witness ==
    /\ pc = "contact"
    /\ h.calls >= 2
    /\ h.last = "graph"

(* ---------------- forces do not accumulate ---------------- *)
\* the force accumulator of every movable body holds one gravity contribution
\* (that of a fixed body none)
OneGravity ==
    \A b \in Bodies : body[b].forces = IF body[b].inv_mass > 0 THEN Gravity ELSE 0

\* C17: at every integrate_vel call of a tick (the tentative integrate, each
\* collision re-integrate, the probes of the initial contact graph and the
\* velocity integrate before the contact loop) the force accumulator of each
\* movable body holds exactly one gravity contribution, and the velocity step
\* taken is that of one gravity contribution
C17_ForcesNeverAccumulate ==
    /\ [](pc \in {"collide", "restore", "ccg_initial", "integrate_vel"} => OneGravity)
    /\ [][\A i \in Slots : body[sysB[i]].inv_mass > 0 =>
             /\ pc = "snapshot" /\ pc' = "collide"
                   => body'[sysB[i]].Momentum = prev_vel'[i].p + Gravity * dt
             /\ pc = "collide" /\ count' = count + 1
                   => body'[sysB[i]].Momentum = prev_vel'[i].p + Gravity * dt
             /\ pc = "integrate_vel" /\ pc' = "contact"
                   => body'[sysB[i]].Momentum = body[sysB[i]].Momentum + Gravity * dt]_vars

\* a collision pass has rewound and re-integrated the bodies, the second
\* zero_forces / add_gravity pair of the tick
C17_Witness ==
    /\ pc = "collide"
    /\ count >= 1
    /\ OneGravity
    /\ \E i \in Slots : body[sysB[i]].Momentum = prev_vel[i].p + Gravity * dt

(* ---------------- the two body arrays ---------------- *)
\* C18: at every create_contact_graph call, for every index i the file-local
\* bVector[i] (whose inv_mass is tested, that is passed to intersection_test and
\* receives the contact edges) is the System's body i (that get_state, the
\* integrator and set_state act on), the first call of a tick included
C18_ArraysAgree ==
    AtGraphCall => \A i \in Slots : bVector[i] = sysB[i]

(* ---------------- snapshot slots and their bodies ---------------- *)
\* slot i of prev_pos holds the pre-tick pose of the body now at index i of the
\* System's array (the boxes of the scene start at different heights, so a pose
\* names its body)
SlotsBound ==
    \A i \in Slots : /\ prev_pos[i].x = pre.st[sysB[i]].x
                     /\ prev_pos[i].q = pre.st[sysB[i]].q

\* C19: every set_state_pos / set_state_vel of slot i writes into a body the
\* state captured from that same body: the System's array is not permuted from
\* the tick snapshot to the restore after the collision loop, whose set_state
\* calls give every body of index i the state of slot i, and in
\* create_contact_graph each probe captures the System's body i and writes the
\* capture back into that body and no other, before the array is sorted
C19_SlotsStayBound ==
    /\ [](pc \in {"collide", "restore"} => SlotsBound)
    /\ [](AtGraphCall =>
            \A touch \in Touches(body, bVector) : \A i \in Slots :
               LET is_initial == pc = "ccg_initial"
                   u == ProbeUpTo(ProbeEntry, sysB, bVector, is_initial, touch, i - 1)
                   w == ProbeUpTo(ProbeEntry, sysB, bVector, is_initial, touch, i)
               IN u.bd[bVector[i]].inv_mass # 0 =>
                     /\ w.pos[i] = get_state_pos(u.bd, sysB, i)
                     /\ w.vel[i] = get_state_vel(u.bd, sysB, i)
                     /\ get_state_pos(w.bd, sysB, i) = w.pos[i]
                     /\ get_state_vel(w.bd, sysB, i) = w.vel[i]
                     /\ \A b \in Bodies \ {sysB[i]} :
                           DynState(w.bd)[b] = DynState(u.bd)[b])
    /\ [][/\ pc \in {"snapshot", "collide", "restore"} => sysB' = sysB
          /\ pc = "restore" /\ pc' = "ccg_initial" =>
                \A i \in Slots : /\ get_state_pos(body', sysB, i) = prev_pos[i]
                                 /\ get_state_vel(body', sysB, i) = prev_vel[i]
          /\ pc = "collide" /\ count' = count + 1 =>
                \A i \in Slots :
                   get_state_pos(CollisionPass(body, sysB, prev_pos, prev_vel'), sysB, i)
                       = get_state_pos(TentativeIntegrate(
                             [body EXCEPT ![sysB[i]].Position = pre.st[sysB[i]].x,
                                          ![sysB[i]].Orientation = pre.st[sysB[i]].q,
                                          ![sysB[i]].Momentum = prev_vel'[i].p,
                                          ![sysB[i]].AngularMomentum = prev_vel'[i].l],
                             sysB), sysB, i)]_vars

\* after a shuffle that moved boxes and a collision pass, the restore has put
\* every body back at its own pre-tick pose
C19_Witness ==
    /\ pc = "ccg_initial"
    /\ count >= 1
    /\ \E i \in Slots : sysB[i] # bVector[i]
    /\ \A i \in Slots : /\ get_state_pos(body, sysB, i) = prev_pos[i]
                        /\ body[sysB[i]].Position = pre.st[sysB[i]].x

====
